---- MODULE Spec2Model ----
(***************************************************************************)
(* kb-hall: a Hall-effect keyboard's analog reports, relayed by a browser  *)
(* tab over a local WebSocket, are decoded into 256 per-key pressure       *)
(* values held in a shared AnalogKeyboard (src/src/lib.rs); a Bevy         *)
(* front end (src/src/main.rs) falls back to digital keys while no analog  *)
(* stream is active.                                                       *)
(*                                                                         *)
(* An f32 is modelled by its IEEE-754 bit pattern, an integer.  Only       *)
(* non-negative patterns occur (sign bit clear), so a pattern is below     *)
(* 2^31 and, for numbers, the order of the patterns is the order of the    *)
(* numbers.                                                                *)
(***************************************************************************)
EXTENDS Integers, Sequences, FiniteSets, TLC

\* ------------------------------------------------------------ constants

ANALOG_DEADZONE == 10
ANALOG_MAX == 1550

\* [f32; 256]: one slot per HID usage code
NumKeys == 256
KeyIdx == 0 .. (NumKeys - 1)

\* f32 bit patterns of the literals the code uses
F32_ZERO == 0
\* 1.0f32 = 0x3F800000
F32_ONE == 1065353216
\* 0.01f32 = 0x3C23D70A
F32_PRESSED == 1008981770
\* +infinity = 0x7F800000 (exponent 255, fraction 0); every larger
\* pattern is a NaN
F32_INF == 255 * (2 ^ 23)

\* the report tag and the frame type
REPORT_TAG == 160
MSG_ANALOG == 3

\* ------------------------------------------------------------ f32

F32IsNaN(b) == b > F32_INF

\* a > b on f32 (false when either is a NaN)
F32Gt(a, b) == ~F32IsNaN(a) /\ ~F32IsNaN(b) /\ a > b

\* a < b on f32 (false when either is a NaN)
F32Lt(a, b) == ~F32IsNaN(a) /\ ~F32IsNaN(b) /\ a < b

\* f32::clamp(min, max): min if self < min, max if self > max, else self
F32Clamp(x, lo, hi) ==
    IF F32Lt(x, lo) THEN lo ELSE IF F32Gt(x, hi) THEN hi ELSE x

\* The least k with n * 2^k >= d (n < d).
RECURSIVE ShiftUp(_, _, _)
ShiftUp(n, d, k) == IF n >= d THEN k ELSE ShiftUp(2 * n, d, k + 1)

\* The greatest k with d * 2^k <= n (n >= d).
RECURSIVE ShiftDown(_, _, _)
ShiftDown(n, d, k) == IF 2 * d > n THEN k ELSE ShiftDown(n, 2 * d, k + 1)

\* i more quotient bits of r / d by long division: <<bits, remainder>>.
RECURSIVE FracBits(_, _, _, _)
FracBits(r, d, i, acc) ==
    IF i = 0 THEN <<acc, r>>
    ELSE IF 2 * r >= d THEN FracBits(2 * r - d, d, i - 1, 2 * acc + 1)
         ELSE FracBits(2 * r, d, i - 1, 2 * acc)

\* (n as f32) / (d as f32) for integers 0 <= n < 2^24, 1 <= d < 2^24:
\* the quotient rounded to the nearest f32, ties to even.
F32Div(n, d) ==
    LET up   == n < d
        k    == IF up THEN ShiftUp(n, d, 0) ELSE ShiftDown(n, d, 0)
        num  == IF up THEN n * (2 ^ k) ELSE n
        den  == IF up THEN d ELSE d * (2 ^ k)
        ex   == IF up THEN 127 - k ELSE 127 + k
        fr   == FracBits(num - den, den, 23, 0)
        frac == fr[1]
        rem  == fr[2]
        rnd  == IF 2 * rem > den \/ (2 * rem = den /\ frac % 2 = 1)
                THEN 1 ELSE 0
    IN  IF n = 0 THEN F32_ZERO ELSE ex * (2 ^ 23) + frac + rnd

\* ------------------------------------------------------------ decoder

\* [0.0f32; 256]
Zeros == [i \in KeyIdx |-> F32_ZERO]

\* PayloadValid, were the report tag not tested
PayloadValidAnyTag(data) == Len(data) >= 6

\* data.len() < 6 || data[0] != 0xA0 is the discard test; data[i] is
\* written data[i + 1] here (sequences start at 1).
PayloadValid(data) == Len(data) >= 6 /\ data[1] = REPORT_TAG

\* data[3] as usize
PayloadKey(data) == data[4]

\* ((data[4] as u16) << 8) | (data[5] as u16)
PayloadRaw(data) == data[5] * 256 + data[6]

\* Normalize, were the quotient not clamped
NormalizeUnclamped(raw) ==
    IF raw <= ANALOG_DEADZONE
    THEN F32_ZERO
    ELSE F32Div(raw - ANALOG_DEADZONE, ANALOG_MAX)

\* the normalized value of a raw sample
Normalize(raw) ==
    IF raw <= ANALOG_DEADZONE
    THEN F32_ZERO
    ELSE F32Clamp(F32Div(raw - ANALOG_DEADZONE, ANALOG_MAX), F32_ZERO, F32_ONE)

\* parse_analog_input, were a sample in the deadzone dropped, not stored
parse_analog_input_drops_deadzone(data, v) ==
    IF ~PayloadValid(data) \/ PayloadRaw(data) <= ANALOG_DEADZONE THEN v
    ELSE [v EXCEPT ![PayloadKey(data)] = Normalize(PayloadRaw(data))]

\* parse_analog_input, were the sample written into an array of zeros
parse_analog_input_resets(data, v) ==
    IF ~PayloadValid(data) THEN v
    ELSE LET key_idx == PayloadKey(data)
             value   == Normalize(PayloadRaw(data))
         IN  IF key_idx < NumKeys THEN [Zeros EXCEPT ![key_idx] = value] ELSE v

\* parse_analog_input(data, kb): the contents of kb.values after the call,
\* v being the contents before it.
parse_analog_input(data, v) ==
    IF ~PayloadValid(data) THEN v
    ELSE LET key_idx == PayloadKey(data)
             value   == Normalize(PayloadRaw(data))
         IN  IF key_idx < NumKeys THEN [v EXCEPT ![key_idx] = value] ELSE v

\* CountPressed, were every key above 0.0 counted
CountPressedNonZero(v) == Cardinality({i \in KeyIdx : F32Gt(v[i], F32_ZERO)})

\* t.iter().filter(|&&v| v > 0.01).count()
CountPressed(v) == Cardinality({i \in KeyIdx : F32Gt(v[i], F32_PRESSED)})

\* ------------------------------------------------------------ status texts

\* A status is a tuple of the pieces format! puts together.
ST_Starting     == <<"Starting...">>
ST_NotFound     == <<"Keyboard not found - plug it in">>
ST_Detected     == <<"Keyboard detected - launching Chrome bridge...">>
ST_Waiting      == <<"Waiting for Chrome connection...">>
ST_Connected    == <<"Chrome connected - click Connect in browser">>
ST_AnalogActive == <<"Analog active!">>
ST_Disconnected == <<"Chrome disconnected - reconnecting...">>
ST_HttpBind(e)  == <<"HTTP bind: ", e>>
ST_WsBind(e)    == <<"WS bind: ", e>>
ST_OpenChrome(port) == <<"Open Chrome -> http://127.0.0.1:", port>>
ST_Pressed(n)   == <<"Analog active! (", n, " keys)">>
\* String::default()
ST_Empty        == <<"">>

\* ------------------------------------------------------------ inputs

\* Binary WebSocket frames: [type][reserved][payload ...].
Frames == <<
    <<3, 0, 160, 0, 0, 4, 3, 0>>,
    <<3, 0, 1, 0, 0, 4, 3, 0>>,
    <<1, 0, 160, 0, 0, 4, 3, 0>>,
    <<3, 0>>,
    <<3, 0, 160, 0, 0, 4, 0, 10>>,
    <<3, 0, 160, 0, 0, 16, 0, 11>>,
    <<3, 0, 160, 0, 0, 255, 255, 255>> >>

\* how many of Frames the browser may send
NumFrames == 6

\* what websocket.read() may return
NoMsg == [kind |-> "None", data |-> <<>>]
Messages ==
    {[kind |-> "Binary", data |-> Frames[i]] : i \in 1 .. NumFrames}
    \cup {[kind |-> k, data |-> <<>>] : k \in {"Close", "Err", "Text"}}

\* the <<vid, pid>> pairs main or a test may hand to AnalogKeyboard::new:
\* main's 0x41e4, 0x2103 and the unit test's 0x1234, 0x5678
IdPairs == << <<16868, 8451>>, <<4660, 22136>>, <<1, 2>> >>
NumIdPairs == 2

\* the devices a poll may list, each as <<vendor_id, product_id>>
DeviceLists == <<
    {},
    {<<16868, 8451>>, <<1133, 49948>>},
    {<<16868, 22136>>, <<4660, 8451>>},
    {<<4660, 22136>>},
    {<<1, 2>>, <<16868, 2>>} >>
NumDeviceLists == 4

\* what HidApi::new() and device_list() may yield: an error, or the devices
NoProbe == [ok |-> FALSE, devices |-> {}]
Probes ==
    {NoProbe} \cup {[ok |-> TRUE, devices |-> DeviceLists[i]] : i \in 1 .. NumDeviceLists}

\* what TcpListener::bind may return: "ok" or an OS error
BindResults == {"ok", "Address already in use (os error 98)"}

\* the port the OS gives the HTTP listener
Ports == {"49152", "49153"}

\* what accept and the handshake may yield
Connections == {"none", "handshake_failed", "handshake_ok"}

\* keycode_to_sc, on the key codes the model presses (F1 has no scancode)
KeyCodes == {"KeyA", "KeyM", "F1"}
keycode_to_sc(k) ==
    CASE k = "KeyA" -> 4
      [] k = "KeyM" -> 16
      [] OTHER -> -1

\* the sets of keys held down that the front end may see
PressedSets == << {}, {"KeyA"}, {"KeyA", "F1"}, {"KeyM"} >>
NumPressedSets == 2

\* report payloads handed to parse_analog_input directly
Payloads == <<
    <<160, 0, 0, 4, 3, 0>>,
    <<160, 0, 0, 4, 0, 10>>,
    <<160, 0, 0, 16, 255, 255>>,
    <<1, 0, 0, 4, 3, 0>>,
    <<160, 0, 0>>,
    <<160, 0, 0, 4, 0, 11>>,
    <<160, 0, 0, 255, 6, 24>>,
    <<160, 0, 0, 4, 3>>,
    <<160, 0, 0, 16, 0, 5, 9>>,
    <<160, 0, 0, 16, 6, 23>> >>
NumPayloads == 9

\* arrays handed to set_values directly, as <<index, f32>> pairs over zeros:
\* 0.75 = 0x3F400000, 1.0 = 0x3F800000, 2.0 = 0x40000000
InputPairs == <<
    {},
    {<<4, 1061158912>>, <<44, 1065353216>>},
    {<<4, 1073741824>>, <<255, 1065353216>>},
    {<<10, 1065353216>>, <<200, 1061158912>>} >>
NumInputs == 3

\* the array of a set of pairs
ArrayOf(pairs) ==
    [i \in KeyIdx |->
        IF \E q \in pairs : q[1] = i
        THEN (CHOOSE q \in pairs : q[1] = i)[2]
        ELSE F32_ZERO]

\* ------------------------------------------------------------ state

VARIABLES
    values,      \* kb.values: [f32; 256]
    active,      \* kb.active
    status,      \* kb.status
    pc,          \* where the hid_thread is
    got_analog,  \* start_webhid_bridge's got_analog
    msg,         \* what websocket.read() returned last in this session
    pressed,     \* start_webhid_bridge's pressed
    hist,        \* history of the current session: whether a type-3 frame
                 \* was read, whether a payload passed the decoder's test,
                 \* whether a handshake failed before it
    vlock,       \* who holds the Mutex of kb.values: "free" or a thread
    cpc,         \* where the front end, or the caller of set_values, is
    vals,        \* the caller's vals, the argument of set_values
    rpc,         \* where the caller of values() is
    snapshot,    \* the array values() is copying out, then its result
    decoded,     \* the payload of the last direct parse_analog_input call
    args,        \* the <<vid, pid>> handed to AnalogKeyboard::new
    vid,         \* kb.vid
    pid,         \* kb.pid
    probe,       \* what hid_thread's last poll of the HID devices yielded
    http_threads, \* how many HTTP threads start_webhid_bridge has spawned
    log,         \* the last message set_status handed to log::info!
    pending,     \* set_status's msg, from its store to its log line
    hud_active,  \* update_hud's active
    poisoned,    \* the fields of kb whose Mutex is poisoned
    ret          \* what the last call of an accessor returned

vars == <<values, active, status, vlock, pc, got_analog, msg, pressed, hist,
          cpc, vals, rpc, snapshot, decoded, args, vid, pid, probe,
          http_threads, log, pending, hud_active, poisoned, ret>>

shared == <<values, active, status>>
logger == <<log, pending>>
bridge == <<pc, got_analog, msg, pressed, hist, probe, http_threads, logger>>
front  == <<cpc, vals, hud_active>>
reader == <<rpc, snapshot>>
\* what is set at construction, or by a fault
fixed  == <<args, vid, pid, poisoned, ret>>
\* what no step of the hid_thread touches
others == <<front, vlock, reader, decoded, fixed>>

\* nothing has happened: no frame read or decoded in the session, no
\* handshake failed since the last session
NoHistory == [analog |-> FALSE, decoded |-> FALSE, failed |-> FALSE]

\* nothing logged, nothing returned
NoLog == <<>>
NoRet == [op |-> "none", val |-> <<>>]

\* AnalogKeyboard::new, were the two ids stored in each other's field
new_swaps_ids(v, p) ==
    [vid |-> p, pid |-> v, values |-> Zeros, active |-> FALSE,
     status |-> ST_Starting]

\* AnalogKeyboard::new(vid, pid)
new(v, p) ==
    [vid |-> v, pid |-> p, values |-> Zeros, active |-> FALSE,
     status |-> ST_Starting]

\* main: let kb = AnalogKeyboard::new(VID, PID), start() not yet called
Init ==
    /\ \E n \in 1 .. NumIdPairs :
         LET kb == new(IdPairs[n][1], IdPairs[n][2])
         IN  /\ args = IdPairs[n]
             /\ vid = kb.vid
             /\ pid = kb.pid
             /\ values = kb.values
             /\ active = kb.active
             /\ status = kb.status
    /\ pc = "new"
    /\ probe = NoProbe
    /\ http_threads = 0
    /\ log = NoLog
    /\ pending = NoLog
    /\ hud_active = FALSE
    /\ poisoned = {}
    /\ ret = NoRet
    /\ got_analog = FALSE
    /\ msg = NoMsg
    /\ pressed = 0
    /\ hist = NoHistory
    /\ vlock = "free"
    /\ cpc = "idle"
    /\ vals = Zeros
    /\ rpc = "idle"
    /\ snapshot = Zeros
    /\ decoded = <<>>

\* ------------------------------------------------------------ kb.values's Mutex

\* CanLock, were the array not guarded by a Mutex
CanLockAlways == TRUE

\* lock() returns only while no other thread holds the guard
CanLock == vlock = "free"

\* self.values.lock() by thread t, the guard kept
Acquire(t) == CanLock /\ vlock' = t

\* the guard dropped
Release(t) == vlock' = "free"

\* An array is copied in two parts, the lower indices first.
LowPart == {i \in KeyIdx : i < NumKeys \div 2}

\* CopyLow, were only the entries that are not 0.0 stored
CopyLowNonZero(src, dst) ==
    [i \in KeyIdx |->
        IF i \in LowPart /\ src[i] # F32_ZERO THEN src[i] ELSE dst[i]]

\* dst after the lower part of src has been copied into it
CopyLow(src, dst) == [i \in KeyIdx |-> IF i \in LowPart THEN src[i] ELSE dst[i]]

\* dst after the upper part of src has been copied into it
CopyHigh(src, dst) == [i \in KeyIdx |-> IF i \in LowPart THEN dst[i] ELSE src[i]]

\* ------------------------------------------------------------ the guarded fields

\* Each operator takes p, whether lock() on the field returned Err (the
\* Mutex is poisoned), and gives what the call returns or leaves in the field.

\* values_or, were the contents of a poisoned lock handed out all the same
values_or_inner(p, v) == v

\* AnalogKeyboard::values: lock().map(|v| *v).unwrap_or([0.0; 256])
values_or(p, v) == IF p THEN Zeros ELSE v

\* AnalogKeyboard::value: lock().map(|v| v[scancode]).unwrap_or(0.0)
value_or(p, v, scancode) == IF p THEN F32_ZERO ELSE v[scancode]

\* AnalogKeyboard::is_active: lock().map(|v| *v).unwrap_or(false)
is_active(p, a) == IF p THEN FALSE ELSE a

\* AnalogKeyboard::status: lock().map(|v| v.clone()).unwrap_or_default()
status_or(p, s) == IF p THEN ST_Empty ELSE s

\* AnalogKeyboard::set_values: if let Ok(mut v) = lock() { *v = *vals }
store_values(p, new_vals, v) == IF p THEN v ELSE new_vals

\* set_status: if let Ok(mut m) = kb.status.lock() { *m = msg.into() }
store_status(p, m, s) == IF p THEN s ELSE m

\* if let Ok(mut h) = kb.active.lock() { *h = b }
store_active(p, b, a) == IF p THEN a ELSE b

\* parse_analog_input: let Ok(mut tgt) = kb.values.lock() else { return }
parse_or(p, data, v) == IF p THEN v ELSE parse_analog_input(data, v)

\* log_info, were no line written
log_info_none ==
    /\ pending # NoLog
    /\ pending' = NoLog
    /\ UNCHANGED <<status, log>>

\* set_status(kb, msg) up to the drop of the guard: the store
set_status(m) ==
    /\ pending = NoLog
    /\ status' = store_status("status" \in poisoned, m, status)
    /\ pending' = m
    /\ UNCHANGED log

\* set_status(kb, msg) after it: log::info!("[HID] {msg}"), and the return
log_info ==
    /\ pending # NoLog
    /\ log' = pending
    /\ pending' = NoLog
    /\ UNCHANGED status

\* ------------------------------------------------------------ hid_thread

\* main: kb.start() spawns the thread running hid_thread, and the app's
\* first frame begins
start ==
    /\ pc = "new"
    /\ pc' = "hid_thread"
    /\ cpc' = "frame"
    /\ UNCHANGED <<shared, got_analog, msg, pressed, hist, probe, http_threads,
                   logger, vals, hud_active, vlock, reader, decoded, fixed>>

\* DeviceMatches, were the vendor id alone compared
DeviceMatchesVendor(d, v, p) == d[1] = v

\* d.vendor_id() == kb.vid && d.product_id() == kb.pid
DeviceMatches(d, v, p) == d[1] = v /\ d[2] = p

\* HidApi::new().map(|api| api.device_list().any(...)).unwrap_or(false)
Found(pr, v, p) ==
    IF pr.ok THEN \E d \in pr.devices : DeviceMatches(d, v, p) ELSE FALSE

\* one turn of hid_thread's loop up to the call of start_webhid_bridge:
\* the poll and set_status's store, then its log line and the way taken
hid_thread ==
    /\ pc = "hid_thread"
    /\ IF pending = NoLog
       THEN /\ \E pr \in Probes :
                 LET found == Found(pr, vid, pid)
                 IN  /\ probe' = pr
                     /\ IF ~found
                        THEN set_status(ST_NotFound)
                        ELSE set_status(ST_Detected)
            /\ UNCHANGED pc
       ELSE /\ log_info
            /\ pc' = IF ~Found(probe, vid, pid) THEN "hid_thread" ELSE "bind_http"
            /\ UNCHANGED probe
    /\ UNCHANGED <<values, active, got_analog, msg, pressed, hist,
                 http_threads, others>>

\* the sleep after start_webhid_bridge has returned
hid_sleep ==
    /\ pc = "hid_sleep"
    /\ pc' = "hid_thread"
    /\ UNCHANGED <<shared, got_analog, msg, pressed, hist,
                 probe, http_threads, logger, others>>

\* ------------------------------------------------------------ start_webhid_bridge

\* TcpListener::bind("127.0.0.1:0") for the HTTP listener
bind_http ==
    /\ pc = "bind_http"
    /\ IF pending = NoLog
       THEN \E r \in BindResults :
              IF r = "ok"
              THEN /\ pc' = "bind_ws"
                   /\ UNCHANGED <<status, logger>>
              ELSE /\ set_status(ST_HttpBind(r))
                   /\ UNCHANGED pc
       ELSE /\ log_info
            /\ pc' = "hid_sleep"
    /\ UNCHANGED <<values, active, got_analog, msg, pressed, hist,
                 probe, http_threads, others>>

\* bind_ws, were the bridge to go on after a failed bind
bind_ws_goes_on ==
    /\ pc = "bind_ws"
    /\ IF pending = NoLog
       THEN \E r \in BindResults :
              IF r = "ok"
              THEN /\ pc' = "serve_page"
                   /\ UNCHANGED <<status, logger>>
              ELSE /\ set_status(ST_WsBind(r))
                   /\ UNCHANGED pc
       ELSE /\ log_info
            /\ pc' = "serve_page"
    /\ UNCHANGED <<values, active, got_analog, msg, pressed, hist,
                 probe, http_threads, others>>

\* TcpListener::bind("127.0.0.1:0") for the WebSocket listener
bind_ws ==
    /\ pc = "bind_ws"
    /\ IF pending = NoLog
       THEN \E r \in BindResults :
              IF r = "ok"
              THEN /\ pc' = "serve_page"
                   /\ UNCHANGED <<status, logger>>
              ELSE /\ set_status(ST_WsBind(r))
                   /\ UNCHANGED pc
       ELSE /\ log_info
            /\ pc' = "hid_sleep"
    /\ UNCHANGED <<values, active, got_analog, msg, pressed, hist,
                 probe, http_threads, others>>

\* the HTTP thread is spawned and the URL published; then set_status's log
\* line, and the browser launched
serve_page ==
    /\ pc = "serve_page"
    /\ IF pending = NoLog
       THEN /\ http_threads' = http_threads + 1
            /\ \E http_port \in Ports : set_status(ST_OpenChrome(http_port))
            /\ UNCHANGED pc
       ELSE /\ log_info
            /\ pc' = "session_wait"
            /\ UNCHANGED http_threads
    /\ UNCHANGED <<values, active, got_analog, msg, pressed, hist,
                 probe, others>>

\* top of the outer loop: set_status("Waiting for Chrome connection...")
session_wait ==
    /\ pc = "session_wait"
    /\ IF pending = NoLog
       THEN /\ set_status(ST_Waiting)
            /\ UNCHANGED pc
       ELSE /\ log_info
            /\ pc' = "session_clear"
    /\ UNCHANGED <<values, active, got_analog, msg, pressed, hist,
                 probe, http_threads, others>>

\* session_clear, were the values zeroed along with the flag
session_clear_resets ==
    /\ pc = "session_clear"
    /\ active' = FALSE
    /\ values' = Zeros
    /\ pc' = "ws_accept"
    /\ UNCHANGED <<status, got_analog, msg, pressed, hist,
                 probe, http_threads, logger, others>>

\* *h = false under kb.active's lock
session_clear ==
    /\ pc = "session_clear"
    /\ active' = FALSE
    /\ pc' = "ws_accept"
    /\ UNCHANGED <<values, status, got_analog, msg, pressed, hist,
                 probe, http_threads, logger, others>>

\* ws_accept, were a failed handshake taken for the end of a session
ws_accept_gives_up ==
    /\ pc = "ws_accept"
    /\ \E c \in Connections :
         /\ pc' = CASE c = "none" -> "ws_accept"
                    [] c = "handshake_failed" -> "session_closed"
                    [] OTHER -> "ws_connected"
         /\ hist' = [hist EXCEPT !.failed = @ \/ (c = "handshake_failed")]
    /\ UNCHANGED <<shared, got_analog, msg, pressed,
                 probe, http_threads, logger, others>>

\* the accept loop and tungstenite::accept
ws_accept ==
    /\ pc = "ws_accept"
    /\ \E c \in Connections :
         /\ pc' = CASE c = "none" -> "ws_accept"
                    [] c = "handshake_failed" -> "session_wait"
                    [] OTHER -> "ws_connected"
         /\ hist' = [hist EXCEPT !.failed = @ \/ (c = "handshake_failed")]
    /\ UNCHANGED <<shared, got_analog, msg, pressed,
                 probe, http_threads, logger, others>>

\* ws_connected, were the flag raised as soon as the browser connects
ws_connected_activates ==
    /\ pc = "ws_connected"
    /\ IF pending = NoLog
       THEN /\ set_status(ST_Connected)
            /\ UNCHANGED <<pc, active, got_analog, msg, hist>>
       ELSE /\ log_info
            /\ active' = TRUE
            /\ got_analog' = FALSE
            /\ msg' = NoMsg
            /\ hist' = [NoHistory EXCEPT !.failed = hist.failed]
            /\ pc' = "ws_read"
    /\ UNCHANGED <<values, pressed, probe, http_threads, others>>

\* set_status("Chrome connected ..."); let mut got_analog = false
ws_connected ==
    /\ pc = "ws_connected"
    /\ IF pending = NoLog
       THEN /\ set_status(ST_Connected)
            /\ UNCHANGED <<pc, active, got_analog, msg, hist>>
       ELSE /\ log_info
            /\ UNCHANGED active
            /\ got_analog' = FALSE
            /\ msg' = NoMsg
            /\ hist' = [NoHistory EXCEPT !.failed = hist.failed]
            /\ pc' = "ws_read"
    /\ UNCHANGED <<values, pressed, probe, http_threads, others>>

\* The wire protocol's words, for the history: a frame is
\* [type][reserved][payload ...], and a payload the decoder accepts has six
\* bytes or more, the first of them the report tag 0xA0.
HasType(m, t) == m.kind = "Binary" /\ Len(m.data) >= 3 /\ m.data[1] = t
Decodable(payload) == Len(payload) >= 6 /\ payload[1] = 160

\* IsAnalogFrame, were the frame's type not looked at
IsAnalogFrameAnyType(m) == m.kind = "Binary" /\ Len(m.data) >= 3

\* Whether the session's loop treats the frame as an analog sample.
IsAnalogFrame(m) ==
    m.kind = "Binary" /\ Len(m.data) >= 3 /\ m.data[1] = MSG_ANALOG

\* let payload = &data[2..]
Payload(data) == SubSeq(data, 3, Len(data))

\* Dispatch, were active not cleared when the session's loop is left
DispatchSkipsClear(m, got) ==
    CASE m.kind \in {"Close", "Err"} -> "session_closed"
      [] IsAnalogFrame(m) -> IF got THEN "frame_parse" ELSE "frame_first"
      [] OTHER -> "ws_read"

\* where the match on websocket.read() goes
Dispatch(m, got) ==
    CASE m.kind \in {"Close", "Err"} -> "session_end"
      [] IsAnalogFrame(m) -> IF got THEN "frame_parse" ELSE "frame_first"
      [] OTHER -> "ws_read"

ws_read ==
    /\ pc = "ws_read"
    /\ \E m \in Messages :
         /\ msg' = m
         /\ pc' = Dispatch(m, got_analog)
         /\ hist' = [hist EXCEPT !.analog = @ \/ HasType(m, 3)]
    /\ UNCHANGED <<shared, got_analog, pressed,
                 probe, http_threads, logger, others>>

\* got_analog = true; *h = true under kb.active's lock
frame_first ==
    /\ pc = "frame_first"
    /\ got_analog' = TRUE
    /\ active' = TRUE
    /\ pc' = "frame_status"
    /\ UNCHANGED <<values, status, msg, pressed, hist,
                 probe, http_threads, logger, others>>

\* set_status(kb, "Analog active!")
frame_status ==
    /\ pc = "frame_status"
    /\ IF pending = NoLog
       THEN /\ set_status(ST_AnalogActive)
            /\ UNCHANGED pc
       ELSE /\ log_info
            /\ pc' = "frame_parse"
    /\ UNCHANGED <<values, active, got_analog, msg, pressed, hist,
                 probe, http_threads, others>>

\* parse_analog_input(payload, kb)
frame_parse ==
    /\ pc = "frame_parse"
    /\ PayloadValid(Payload(msg.data)) => CanLock
    /\ values' = parse_analog_input(Payload(msg.data), values)
    /\ hist' = [hist EXCEPT !.decoded = @ \/ Decodable(Payload(msg.data))]
    /\ pc' = "frame_count"
    /\ UNCHANGED <<active, status, got_analog, msg, pressed,
                 probe, http_threads, logger, others>>

\* let pressed = ... count() under kb.values's lock
frame_count ==
    /\ pc = "frame_count"
    /\ CanLock
    /\ pressed' = CountPressed(values)
    /\ pc' = "frame_publish"
    /\ UNCHANGED <<shared, got_analog, msg, hist,
                 probe, http_threads, logger, others>>

\* *m = format!("Analog active! ({pressed} keys)") under kb.status's lock
frame_publish ==
    /\ pc = "frame_publish"
    /\ status' = ST_Pressed(pressed)
    /\ pc' = "ws_read"
    /\ UNCHANGED <<values, active, got_analog, msg, pressed, hist,
                 probe, http_threads, logger, others>>

\* session_end, were the flag left as it is
session_end_keeps_active ==
    /\ pc = "session_end"
    /\ hist' = [hist EXCEPT !.failed = FALSE]
    /\ pc' = "session_closed"
    /\ UNCHANGED <<shared, got_analog, msg, pressed,
                 probe, http_threads, logger, others>>

\* after the session's loop: *h = false under kb.active's lock
session_end ==
    /\ pc = "session_end"
    /\ active' = FALSE
    /\ hist' = [hist EXCEPT !.failed = FALSE]
    /\ pc' = "session_closed"
    /\ UNCHANGED <<values, status, got_analog, msg, pressed,
                 probe, http_threads, logger, others>>

\* set_status("Chrome disconnected ..."), the sleep, and the outer loop again
session_closed ==
    /\ pc = "session_closed"
    /\ IF pending = NoLog
       THEN /\ set_status(ST_Disconnected)
            /\ UNCHANGED pc
       ELSE /\ log_info
            /\ pc' = "session_wait"
    /\ UNCHANGED <<values, active, got_analog, msg, pressed, hist,
                 probe, http_threads, others>>

\* every step of the thread AnalogKeyboard::start spawns
BridgeThread ==
    \/ start \/ hid_thread \/ hid_sleep \/ bind_http \/ bind_ws \/ serve_page
    \/ session_wait \/ session_clear \/ ws_accept \/ ws_connected \/ ws_read
    \/ frame_first \/ frame_status \/ frame_parse \/ frame_count
    \/ frame_publish \/ session_end \/ session_closed

\* ------------------------------------------------------------ front end

\* let mut vals = [0.0; 256]; vals[sc] = 1.0 for each pressed key with a scancode
DigitalVals(keys) ==
    [i \in KeyIdx |->
        IF \E k \in keys : keycode_to_sc(k) = i THEN F32_ONE ELSE F32_ZERO]

\* read_bevy_keys, the first system of a frame, up to its call of
\* set_values: the is_active() test
read_bevy_keys ==
    /\ cpc = "frame"
    /\ IF is_active("active" \in poisoned, active)
       THEN /\ cpc' = "idle"
            /\ UNCHANGED vals
       ELSE /\ \E n \in 1 .. NumPressedSets : vals' = DigitalVals(PressedSets[n])
            /\ cpc' = "set_values"
    /\ UNCHANGED <<shared, bridge, vlock, reader, decoded, hud_active,
                   fixed>>

\* AnalogKeyboard::set_values: the lock, and *v = *vals begun
set_values_lock ==
    /\ cpc = "set_values"
    /\ Acquire("caller")
    /\ values' = CopyLow(vals, values)
    /\ cpc' = "set_values_store"
    /\ UNCHANGED <<active, status, bridge, vals, reader, decoded, hud_active,
                   fixed>>

\* AnalogKeyboard::set_values: *v = *vals completed, the guard dropped
set_values_store ==
    /\ cpc = "set_values_store"
    /\ values' = CopyHigh(vals, values)
    /\ Release("caller")
    /\ cpc' = "idle"
    /\ UNCHANGED <<active, status, bridge, vals, reader, decoded, hud_active,
                   fixed>>

set_values == set_values_lock \/ set_values_store

\* animate_values, the second system of a frame (and no frame runs before
\* main has called kb.start()): let target = state.kb.values(), the lock
\* taken and the copy *v begun; read_bevy_keys has returned, its vals are gone
animate_values_lock ==
    /\ cpc = "idle"
    /\ pc # "new"
    /\ Acquire("caller")
    /\ snapshot' = CopyLow(values_or("values" \in poisoned, values), Zeros)
    /\ vals' = Zeros
    /\ cpc' = "animate_values"
    /\ UNCHANGED <<shared, bridge, rpc, decoded, hud_active, fixed>>

\* animate_values: the copy completed, the guard dropped, values() returned
animate_values_copy ==
    /\ cpc = "animate_values"
    /\ snapshot' = CopyHigh(values_or("values" \in poisoned, values), snapshot)
    /\ Release("caller")
    /\ cpc' = "animate_values_display"
    /\ UNCHANGED <<shared, bridge, vals, rpc, decoded, hud_active, fixed>>

\* animate_values: the loop that moves state.display towards target, which
\* touches nothing of the keyboard, and the return: target goes out of scope
animate_values_display ==
    /\ cpc = "animate_values_display"
    /\ snapshot' = Zeros
    /\ cpc' = "update_hud"
    /\ UNCHANGED <<shared, bridge, vlock, vals, rpc, decoded, hud_active,
                   fixed>>

animate_values ==
    animate_values_lock \/ animate_values_copy \/ animate_values_display

\* update_hud, the last system of a frame: let active = state.kb.is_active()
update_hud_active ==
    /\ cpc = "update_hud"
    /\ hud_active' = is_active("active" \in poisoned, active)
    /\ cpc' = "update_hud_status"
    /\ UNCHANGED <<shared, bridge, vlock, vals, reader, decoded, fixed>>

\* what a call of status() returns now
StatusRead == status_or("status" \in poisoned, status)

\* update_hud: let st = state.kb.status(), which is StatusRead; the text and
\* its colour are set from st and active, and the two go out of scope
update_hud_status ==
    /\ cpc = "update_hud_status"
    /\ hud_active' = FALSE
    /\ cpc' = "frame"
    /\ UNCHANGED <<shared, bridge, vlock, vals, reader, decoded, fixed>>

update_hud == update_hud_active \/ update_hud_status

\* (read_bevy_keys, animate_values, update_vis, update_hud).chain()
FrontEnd == read_bevy_keys \/ set_values \/ animate_values \/ update_hud

\* ------------------------------------------------------------ the program

Next == BridgeThread \/ FrontEnd

Spec == Init /\ [][Next]_vars

\* The steps the thread takes of itself: all but the poll, whose outcome is
\* the devices', the accept loop, which waits for a browser for as long as
\* none connects, and websocket.read(), which waits for a message.
ThreadRuns ==
    \/ start \/ hid_sleep \/ bind_http \/ bind_ws \/ serve_page
    \/ session_wait \/ session_clear \/ ws_connected
    \/ frame_first \/ frame_status \/ frame_parse \/ frame_count
    \/ frame_publish \/ session_end \/ session_closed
    \/ (hid_thread /\ pending # NoLog)

\* The thread runs for as long as the process does, and a caller that holds
\* the guard of kb.values finishes its copy and drops it. Nothing is asked
\* of the devices, the browser or the front end.
FairSpec ==
    /\ Spec
    /\ WF_vars(ThreadRuns)
    /\ WF_vars(set_values_store)
    /\ WF_vars(animate_values_copy)

\* The thread alone, no front end calling set_values beside it.
SpecBridge == Init /\ [][BridgeThread]_vars

\* ------------------------------------------------------------ the library's callers

\* AnalogKeyboard::values: a snapshot of the array v
values_of(v) == v

\* AnalogKeyboard::value: the entry of v at scancode
value(v, scancode) == v[scancode]

\* a thread calls set_values with an array of its own
call_set_values ==
    /\ cpc = "idle"
    /\ \E n \in 1 .. NumInputs : vals' = ArrayOf(InputPairs[n])
    /\ cpc' = "set_values"
    /\ UNCHANGED <<shared, bridge, vlock, reader, decoded, hud_active,
                   fixed>>

\* a thread calls parse_analog_input with a payload, as the unit tests do
call_parse_analog_input ==
    /\ \E n \in 1 .. NumPayloads :
         /\ PayloadValid(Payloads[n]) => CanLock
         /\ decoded' = Payloads[n]
         /\ values' = parse_analog_input(Payloads[n], values)
    /\ UNCHANGED <<active, status, bridge, vlock, front, reader, fixed>>

\* AnalogKeyboard::values: the lock, and the copy *v begun
values_lock ==
    /\ rpc = "idle"
    /\ Acquire("reader")
    /\ snapshot' = CopyLow(values_of(values), Zeros)
    /\ rpc' = "values_copy"
    /\ UNCHANGED <<shared, bridge, front, decoded, fixed>>

\* AnalogKeyboard::values: the copy completed, the guard dropped
values_copy ==
    /\ rpc = "values_copy"
    /\ snapshot' = CopyHigh(values_of(values), snapshot)
    /\ Release("reader")
    /\ rpc' = "idle"
    /\ UNCHANGED <<shared, bridge, front, decoded, fixed>>

ApiNext ==
    \/ call_set_values \/ set_values
    \/ call_parse_analog_input
    \/ values_lock \/ values_copy

\* The library under concurrent callers of its accessors and of the decoder,
\* the keyboard constructed as main constructs it.
InitApi == Init /\ args = IdPairs[1]
SpecApi == InitApi /\ [][ApiNext]_vars

\* ------------------------------------------------------------ poisoned locks

\* No step of the program panics while it holds a guard, so poisoned stays
\* empty in Spec and in SpecApi. Here the fault is injected, and one caller
\* goes through the accessors, the setters and the decoder.

Fields == {"values", "active", "status"}

\* what stays as it is in a call on the library: the thread's and the front
\* end's own state, and the keyboard's ids
unspawned == <<pc, got_analog, msg, pressed, hist, probe, http_threads>>
callers == <<front, vlock, reader, decoded, args, vid, pid>>

\* a thread panics while it holds the guard of a field
poison ==
    /\ \E f \in Fields \ poisoned : poisoned' = poisoned \cup {f}
    /\ UNCHANGED <<shared, unspawned, logger, callers, ret>>

\* kb.values()
get_values ==
    /\ pending = NoLog
    /\ ret' = [op |-> "values", val |-> values_or("values" \in poisoned, values)]
    /\ UNCHANGED <<shared, unspawned, logger, callers, poisoned>>

\* kb.value(scancode)
get_value ==
    /\ pending = NoLog
    /\ \E scancode \in {4, 44} :
         ret' = [op |-> "value",
                 val |-> <<scancode,
                           value_or("values" \in poisoned, values, scancode)>>]
    /\ UNCHANGED <<shared, unspawned, logger, callers, poisoned>>

\* kb.is_active()
get_is_active ==
    /\ pending = NoLog
    /\ ret' = [op |-> "is_active", val |-> is_active("active" \in poisoned, active)]
    /\ UNCHANGED <<shared, unspawned, logger, callers, poisoned>>

\* kb.status()
get_status ==
    /\ pending = NoLog
    /\ ret' = [op |-> "status", val |-> status_or("status" \in poisoned, status)]
    /\ UNCHANGED <<shared, unspawned, logger, callers, poisoned>>

\* kb.set_values(&vals)
put_values ==
    /\ pending = NoLog
    /\ \E n \in {2, 4} :
         /\ values' = store_values("values" \in poisoned, ArrayOf(InputPairs[n]), values)
         /\ ret' = [op |-> "set_values", val |-> n]
    /\ UNCHANGED <<active, status, unspawned, logger, callers, poisoned>>

\* set_status(kb, msg): the store, then the log line
put_status ==
    /\ IF pending = NoLog
       THEN \E m \in {ST_Waiting, ST_AnalogActive} :
              /\ set_status(m)
              /\ ret' = [op |-> "set_status", val |-> m]
       ELSE /\ log_info
            /\ UNCHANGED ret
    /\ UNCHANGED <<values, active, unspawned, callers, poisoned>>

\* the bridge's writes of kb.active
put_active ==
    /\ pending = NoLog
    /\ \E b \in BOOLEAN :
         /\ active' = store_active("active" \in poisoned, b, active)
         /\ ret' = [op |-> "set_active", val |-> b]
    /\ UNCHANGED <<values, status, unspawned, logger, callers, poisoned>>

\* parse_analog_input(data, kb)
put_sample ==
    /\ pending = NoLog
    /\ \E n \in {1, 3} :
         /\ values' = parse_or("values" \in poisoned, Payloads[n], values)
         /\ ret' = [op |-> "parse_analog_input", val |-> n]
    /\ UNCHANGED <<active, status, unspawned, logger, callers, poisoned>>

PoisonNext ==
    \/ poison
    \/ get_values \/ get_value \/ get_is_active \/ get_status
    \/ put_values \/ put_status \/ put_active \/ put_sample

\* The library under one caller, its locks liable to be poisoned.
SpecPoison == InitApi /\ [][PoisonNext]_vars

\* ======================================================================
\* Properties
\* ======================================================================

\* where the hid_thread is while a session's frames are read and handled
InSession ==
    pc \in {"ws_read", "frame_first", "frame_status", "frame_parse",
            "frame_count", "frame_publish", "session_end"}

\* ---------------------------------------------------------------- C1

\* C1: after a session has ended (a Close frame or a read error),
\* start_webhid_bridge returns to hid_thread, which waits and polls for the
\* device again.
C1_SessionEndLeadsToPoll == (pc = "session_end") ~> (pc = "hid_thread")

\* ---------------------------------------------------------------- C2

\* C2: the set_values of read_bevy_keys never takes effect while active is
\* true (so it never overwrites what parse_analog_input wrote in the active
\* session: the decoder is only called while active is true).
C2_FallbackNeverWritesWhileActive ==
    [][(cpc \in {"set_values", "set_values_store"} /\ cpc' # cpc) => ~active]_vars

\* ---------------------------------------------------------------- C4

\* C4, as claimed: active is true only in a session one of whose type-3
\* frames carried a payload that passed the decoder's test and was written
\* (stated between frames, when every frame read has been handled in full).
C4_ActiveOnlyAfterDecode == (active /\ pc = "ws_read") => hist.decoded

\* C4, amended: active is true only in a session in which a type-3 frame of
\* three bytes or more has been read, whether or not its payload passes the
\* decoder's test.
C4_ActiveOnlyAfterAnalogFrame == active => (InSession /\ hist.analog)

\* C4's case: active in a session none of whose payloads was decoded, the
\* frame handled and the next one awaited.
C4_Witness == active /\ pc = "ws_read" /\ ~hist.decoded

\* ---------------------------------------------------------------- C5

\* C5: between frames active is true exactly if a type-3 frame has been read
\* in this session; it is false when the first such frame arrives, true
\* while that frame and every later frame is handled, and false outside a
\* session, from the step that ends it on.
C5_ActiveExactlyInStreamingSession ==
    /\ pc \in {"ws_read", "session_end"} => (active <=> hist.analog)
    /\ pc = "frame_first" => ~active
    /\ pc \in {"frame_status", "frame_parse", "frame_count", "frame_publish"}
           => active
    /\ ~InSession => ~active

\* C5's case: a later frame of another type has been read and active is
\* still true.
C5_Witness ==
    /\ pc = "ws_read" /\ active
    /\ msg.kind = "Binary" /\ Len(msg.data) >= 3 /\ msg.data[1] # 3

\* ---------------------------------------------------------------- C3

\* C3: every entry of values is a number of [0.0, 1.0].
C3_ValuesInUnitInterval == \A i \in KeyIdx : values[i] \in 0 .. F32_ONE

\* ---------------------------------------------------------------- C6

\* floor(x * 2^16) of the f32 x with pattern b, for 0 <= x < 1
Fixed16(b) ==
    LET e == b \div (2 ^ 23)
        m == (2 ^ 23) + (b % (2 ^ 23))
    IN  IF e = 0 \/ 134 - e > 30 THEN 0 ELSE m \div (2 ^ (134 - e))

\* the f32 with pattern b is within 2^-15 of n / 1550
NearQuotient(b, n) ==
    LET d == Fixed16(b) * 1550 - n * 65536
    IN  b < F32_ONE /\ d <= 2 * 1550 /\ -d <= 2 * 1550

\* what C6 says of the array w a decode of payload p leaves behind
C6_Decoded(p, w) ==
    LET raw == p[5] * 256 + p[6]
        x   == w[p[4]]
    IN  (Len(p) >= 6 /\ p[1] = 160 /\ raw > 10) =>
            /\ raw >= 1560 => x = F32_ONE
            /\ raw < 1560 => NearQuotient(x, raw - 10)
            \* 0x3EFA6270, the f32 nearest to 758 / 1550
            /\ raw = 768 => x = 1056596592

\* C6: a decode of a valid payload with raw > 10 writes
\* clamp((raw - 10) / 1550, 0, 1) into values[payload[3]]: the quotient for
\* raw = 768, exactly 1.0 for every raw >= 1560.
C6_DecodeNormalizes ==
    [][call_parse_analog_input => C6_Decoded(decoded', values')]_vars

\* C6's case: raw = 65535 was decoded last, into key 16, after raw = 768
\* into key 4.
C6_Witness ==
    /\ decoded = <<160, 0, 0, 16, 255, 255>>
    /\ values[16] = F32_ONE
    /\ values[4] = 1056596592

\* ---------------------------------------------------------------- C7

\* C7: a decode of a valid payload with raw in [0, 10] writes exactly 0.0
\* into values[payload[3]], whatever the entry held.
C7_DeadzoneWritesZero ==
    [][call_parse_analog_input =>
         LET p == decoded'
         IN  (Len(p) >= 6 /\ p[1] = 160 /\ p[5] * 256 + p[6] <= 10)
                 => values'[p[4]] = F32_ZERO]_vars

\* C7's case: raw = 10 was decoded into key 4 of the array that
\* set_values had filled with 0.75 at key 4 and 1.0 at key 44.
C7_Witness ==
    /\ decoded = <<160, 0, 0, 4, 0, 10>>
    /\ values[4] = F32_ZERO
    /\ values[44] = F32_ONE
    /\ cpc = "idle"

\* ---------------------------------------------------------------- C8

\* C8: a decode of a payload shorter than 6 bytes, or whose first byte is
\* not 0xA0, leaves every entry of values as it was.
C8_InvalidPayloadIgnored ==
    [][call_parse_analog_input =>
         (~(Len(decoded') >= 6 /\ decoded'[1] = 160) => values' = values)]_vars

\* C8's case: the payload with report tag 0x01 was handed to the decoder
\* while the array was not all zeros.
C8_Witness == decoded = <<1, 0, 0, 4, 3, 0>> /\ values # Zeros

\* ---------------------------------------------------------------- C9

\* C9: when set_values(V) returns, value(i) = V[i] for every i and
\* values() = V, whatever the array held before the call.
C9_SetValuesOverwrites ==
    [][set_values_store =>
         /\ \A i \in KeyIdx : value(values', i) = vals[i]
         /\ values_of(values') = vals]_vars

\* C9's case: set_values has returned with its array {4: 0.75, 44: 1.0} in
\* place of an array in which values() had seen key 16 held: the decoder
\* reaches neither 0.75 nor key 44, and only set_values puts key 16 back to 0.
C9_Witness ==
    /\ cpc = "idle" /\ rpc = "idle"
    /\ vals = ArrayOf(InputPairs[2]) /\ values = vals
    /\ snapshot[16] # F32_ZERO /\ values[16] = F32_ZERO

\* ---------------------------------------------------------------- C10

\* C10: what values() returns is the whole array as it stands when the
\* copy ends, and no set_values is then half done: the snapshot is the
\* array between two complete writes.
C10_SnapshotIsWhole ==
    [][values_copy => (snapshot' = values /\ cpc # "set_values_store")]_vars

\* C10's case: values() has returned entries that are not all zero while a
\* set_values call with another array waits for the lock.
C10_Witness ==
    /\ rpc = "idle" /\ snapshot # Zeros
    /\ cpc = "set_values" /\ vals # snapshot

\* ------------------------------------------------------------ construction

\* C11: a keyboard fresh from AnalogKeyboard::new(vid, pid), before start()
\* or any other call, reports is_active() false, the status "Starting...",
\* 0.0 at each of the 256 indices, and vid() and pid() equal to the arguments.
C11_FreshKeyboard ==
    pc = "new" =>
        /\ is_active("active" \in poisoned, active) = FALSE
        /\ status_or("status" \in poisoned, status) = <<"Starting...">>
        /\ \A i \in 0 .. 255 : values_or("values" \in poisoned, values)[i] = 0
        /\ vid = args[1]
        /\ pid = args[2]

\* the unit test's keyboard, constructed and not yet started
C11_Witness == pc = "new" /\ args = <<4660, 22136>> /\ vid = 4660

\* ------------------------------------------------------------ poisoned locks

\* C12: with the lock of a field poisoned, each accessor gives its default
\* (values() 256 zeros, value(code) 0.0, is_active() false, status() the
\* empty string), and set_values, set_status, the bridge's store of active
\* and parse_analog_input leave the field as it was.
C12_PoisonedLockDegrades ==
    /\ [][("values" \in poisoned /\ ret' # ret /\ ret'.op = "values")
            => \A i \in 0 .. 255 : ret'.val[i] = 0]_vars
    /\ [][("values" \in poisoned /\ ret' # ret /\ ret'.op = "value")
            => ret'.val[2] = 0]_vars
    /\ [][("active" \in poisoned /\ ret' # ret /\ ret'.op = "is_active")
            => ret'.val = FALSE]_vars
    /\ [][("status" \in poisoned /\ ret' # ret /\ ret'.op = "status")
            => ret'.val = <<"">>]_vars
    /\ [][("values" \in poisoned) => values' = values]_vars
    /\ [][("status" \in poisoned) => status' = status]_vars
    /\ [][("active" \in poisoned) => active' = active]_vars

\* every lock poisoned while the fields hold other than their defaults, and
\* values() has returned zeros
C12_Witness ==
    /\ poisoned = {"values", "active", "status"}
    /\ values[4] # 0 /\ active /\ status = <<"Analog active!">>
    /\ ret.op = "values" /\ ret.val = [i \in 0 .. 255 |-> 0]

\* ------------------------------------------------------------ the log

\* the count published after a frame: "Analog active! (<n> keys)"
C13_PerFrame(s) == Len(s) = 3 /\ s[1] = "Analog active! (" /\ s[3] = " keys)"

\* C13, as stated: every change of the status is logged as it is made, the
\* count published after each frame included: once a store is through and
\* its call has returned, the last line logged is the status.
C13_EveryStatusChangeLogged ==
    (pending = <<>> /\ status # <<"Starting...">>) => log = status

\* C13, amended: every change of the status made through set_status is
\* logged by that call, after the store: each line logged is the status
\* just stored. The count published after each frame is stored in the
\* status with no log line, the last line logged staying "Analog active!".
C13_StatusLoggedExceptPerFrame ==
    /\ []((pending = <<>> /\ status # <<"Starting...">>)
            => \/ log = status
               \/ C13_PerFrame(status) /\ log = <<"Analog active!">>)
    /\ [](pending # <<>> => status = pending)
    /\ [][log' # log => (pending # <<>> /\ log' = status /\ status' = status)]_vars
    /\ [][(status' # status /\ ~C13_PerFrame(status'))
            => (pending = <<>> /\ pending' = status')]_vars
    /\ [][(status' # status /\ C13_PerFrame(status'))
            => (log' = log /\ pending' = pending /\ log = <<"Analog active!">>)]_vars

\* a count published, the log still at the first frame's line
C13_Witness ==
    /\ status = <<"Analog active! (", 1, " keys)">>
    /\ log = <<"Analog active!">>
    /\ pending = <<>>
    /\ pc = "ws_read"

\* ------------------------------------------------------------ the decoder's frame

\* C14: decoding one valid payload changes values at the payload's key index
\* only: every other index keeps its value, and active and status are as
\* before the call of parse_analog_input.
C14_DecodeTouchesOneIndex ==
    [][(pc = "frame_parse" /\ pc' = "frame_count"
            /\ Decodable(SubSeq(msg.data, 3, Len(msg.data))))
        => /\ \A i \in 0 .. 255 : i # msg.data[6] => values'[i] = values[i]
           /\ active' = active
           /\ status' = status]_vars

\* a sample for key 4 has been decoded, the one held for key 16 still there
C14_Witness ==
    /\ pc = "frame_count"
    /\ msg.data = <<3, 0, 160, 0, 0, 4, 3, 0>>
    /\ values[4] = 1056596592
    /\ values[16] # 0
    /\ active

\* ------------------------------------------------------------ ignored messages

\* a binary frame with fewer than 3 bytes or with a type other than 0x03, or a
\* message that is neither binary nor Close (a read error is not a message)
C15_Ignored(m) ==
    \/ m.kind = "Binary" /\ (Len(m.data) < 3 \/ m.data[1] # 3)
    \/ m.kind \notin {"Binary", "Close", "Err"}

\* C15: in a session, a binary frame shorter than 3 bytes or of a type other
\* than 0x03, and any message that is neither binary nor Close, is ignored:
\* values, active and status stay as they are and the session reads on.
C15_OtherMessagesIgnored ==
    [][(pc = "ws_read" /\ cpc' = cpc /\ C15_Ignored(msg'))
        => /\ pc' = "ws_read"
           /\ values' = values
           /\ active' = active
           /\ status' = status]_vars

\* a two-byte frame of type 0x03 read in the middle of a stream
C15_Witness ==
    /\ pc = "ws_read"
    /\ msg = [kind |-> "Binary", data |-> <<3, 0>>]
    /\ active
    /\ status = <<"Analog active! (", 1, " keys)">>

\* ------------------------------------------------------------ the published count

\* C16: with no set_values running beside the thread, once a frame of type
\* 0x03 and of 3 bytes or more has been processed the status is
\* "Analog active! (<count> keys)", count being how many indices of values
\* hold more than 0.01 (0x3C23D70A) after that frame's decode.
C16_StatusCountsPressedKeys ==
    (pc = "ws_read" /\ msg.kind = "Binary" /\ Len(msg.data) >= 3 /\ msg.data[1] = 3)
        => status = <<"Analog active! (",
                      Cardinality({i \in 0 .. 255 : values[i] > 1008981770}),
                      " keys)">>

\* key 4 held half way, key 16 just beyond the deadzone: one key counted
C16_Witness ==
    /\ pc = "ws_read"
    /\ msg.data = <<3, 0, 160, 0, 0, 16, 0, 11>>
    /\ values[4] = 1056596592
    /\ values[16] \in 1 .. 1008981770
    /\ status = <<"Analog active! (", 1, " keys)">>

\* ------------------------------------------------------------ failed handshakes

\* the bridge accepting connections: the top of its outer loop to accept
C17_Accepting == pc \in {"session_wait", "session_clear", "ws_accept"}

\* C17: when the WebSocket handshake of an accepted connection fails, the
\* connection is dropped and the bridge goes back to accepting on the same
\* listener: active stays false, the thread leaves values alone, the status
\* stays "Waiting for Chrome connection...", nothing is bound or spawned
\* again, and a later connection whose handshake succeeds starts a session.
C17_HandshakeFailureRetries ==
    /\ []((hist.failed /\ C17_Accepting)
            => (~active /\ status = <<"Waiting for Chrome connection...">>))
    /\ [][(pc = "ws_accept" /\ ~hist.failed /\ hist.failed')
            => (pc' = "session_wait" /\ values' = values)]_vars
    /\ [][(hist.failed /\ C17_Accepting /\ cpc' = cpc)
            => /\ values' = values
               /\ http_threads' = http_threads
               /\ (C17_Accepting' \/ pc' = "ws_connected")]_vars
    /\ []((hist.failed /\ pc = "ws_accept")
            => ENABLED (ws_accept /\ pc' = "ws_connected"))

\* a session streaming on a connection made after a handshake had failed
C17_Witness == hist.failed /\ pc = "ws_read" /\ active

\* ------------------------------------------------------------ bind failures

\* the status carries a bind error: "HTTP bind: <e>" or "WS bind: <e>"
C18_BindError(s) == Len(s) = 2 /\ s[1] \in {"HTTP bind: ", "WS bind: "}

\* C18: when binding the HTTP or the WebSocket listener fails, the status is
\* set to a message carrying the OS error and start_webhid_bridge returns:
\* no bind is tried again, no HTTP thread is spawned, active and values are
\* not changed; the watcher then sleeps and goes back to polling.
C18_BindFailureReturns ==
    /\ [][(pc \in {"bind_http", "bind_ws"} /\ pc' = "hid_sleep")
            => /\ status' = <<(IF pc = "bind_http" THEN "HTTP bind: "
                                                    ELSE "WS bind: "),
                              "Address already in use (os error 98)">>
               /\ active' = active
               /\ values' = values
               /\ http_threads' = http_threads]_vars
    /\ [](C18_BindError(status)
            => /\ \/ pc \in {"hid_sleep", "hid_thread"}
                  \/ pc \in {"bind_http", "bind_ws"} /\ pending = status
               /\ http_threads = 0
               /\ ~active)
    /\ [][(pc \in {"bind_http", "bind_ws"} /\ C18_BindError(status) /\ cpc' = cpc)
            => (pc' \in {pc, "hid_sleep"} /\ active' = active /\ values' = values)]_vars
    /\ [][(pc = "hid_sleep" /\ pc' # pc) => pc' = "hid_thread"]_vars
    /\ ((pc \in {"bind_http", "bind_ws"} /\ C18_BindError(status))
            ~> (pc = "hid_thread"))

\* start_webhid_bridge has returned on a failed bind of the WebSocket
\* listener, the keys of the fallback path in values
C18_Witness ==
    /\ pc = "hid_sleep"
    /\ status = <<"WS bind: ", "Address already in use (os error 98)">>
    /\ values[4] = 1065353216
    /\ http_threads = 0

\* ------------------------------------------------------------ polling

\* the poll listed a device with the keyboard's vendor and product id
C19_Listed == probe.ok /\ <<vid, pid>> \in probe.devices

\* C19: while searching, a poll that does not find the keyboard's vendor and
\* product pair (the enumeration failing included) sets the status
\* "Keyboard not found - plug it in" and the thread polls again, the bridge
\* not launched; the bridge is launched, after the status "Keyboard detected
\* - launching Chrome bridge...", only by a poll that found the device.
C19_LaunchOnlyAfterFound ==
    /\ [][(pc = "hid_thread" /\ cpc' = cpc /\ ~C19_Listed')
            => /\ status' = <<"Keyboard not found - plug it in">>
               /\ pc' = "hid_thread"
               /\ http_threads' = http_threads]_vars
    /\ [][(pc = "hid_thread" /\ cpc' = cpc /\ C19_Listed')
            => /\ status' = <<"Keyboard detected - launching Chrome bridge...">>
               /\ pc' \in {"hid_thread", "bind_http"}]_vars
    /\ [][(pc' = "bind_http" /\ pc # "bind_http")
            => (pc = "hid_thread" /\ C19_Listed /\ log' = status)]_vars
    /\ [](pc = "bind_http" => C19_Listed)
    /\ []((pc = "bind_http" /\ pending = <<>>)
            => status = <<"Keyboard detected - launching Chrome bridge...">>)

\* main's keyboard not found by a poll that listed a device of its vendor
\* with another product id, and one of its product id with another vendor
C19_Witness ==
    /\ pc = "hid_thread"
    /\ args = <<16868, 8451>>
    /\ probe = [ok |-> TRUE, devices |-> {<<16868, 22136>>, <<4660, 8451>>}]
    /\ status = <<"Keyboard not found - plug it in">>

\* ------------------------------------------------------------ active and status together

\* the statuses of a connected session
C20_SessionStatus(s) ==
    \/ s = <<"Chrome connected - click Connect in browser">>
    \/ s = <<"Analog active!">>
    \/ Len(s) = 3 /\ s[1] = "Analog active! (" /\ s[3] = " keys)"

\* the statuses between sessions
C20_BetweenSessions(s) ==
    \/ s = <<"Chrome disconnected - reconnecting...">>
    \/ s = <<"Waiting for Chrome connection...">>

\* C20, as stated: whenever active is true the status is that of a connected
\* session, and a reader that has seen is_active() true reads such a status,
\* however its reads interleave with the thread.
C20_ReaderSeesSessionStatus ==
    /\ [](active => C20_SessionStatus(status))
    /\ [][(cpc = "update_hud_status" /\ cpc' = "frame" /\ hud_active)
            => C20_SessionStatus(StatusRead)]_vars

\* C20, amended: in every state in which active is true the status is that
\* of a connected session. is_active() and status() are two calls under two
\* locks: a reader that has seen is_active() true may read, besides those,
\* the "Chrome disconnected - reconnecting..." or "Waiting for Chrome
\* connection..." of a session that ended between its two calls, and never a
\* searching or bind-error status.
C20_ActiveImpliesSessionStatus ==
    /\ [](active => C20_SessionStatus(status))
    /\ [][(cpc = "update_hud_status" /\ cpc' = "frame" /\ hud_active)
            => (C20_SessionStatus(StatusRead) \/ C20_BetweenSessions(StatusRead))]_vars

\* update_hud has read active = true, and the status it is about to read is
\* that of a session that has ended in between
C20_Witness ==
    /\ cpc = "update_hud_status"
    /\ hud_active
    /\ ~active
    /\ status = <<"Chrome disconnected - reconnecting...">>

\* ------------------------------------------------------------ values between sessions

\* the thread between the streams of two sessions: the session's loop left,
\* the outer loop's top, accept, the handshake, the connection announced
C21_BetweenStreams ==
    pc \in {"session_end", "session_closed", "session_wait", "session_clear",
            "ws_accept", "ws_connected"}

\* C21: ending a session and starting the next never modifies values: no
\* step of the thread from the end of one session's loop to the next
\* connection changes an entry, and while active is false the entries stay
\* as the last decoded frames left them until a set_values call stores
\* others (a frame is decoded only once active is true again).
C21_ValuesKeptBetweenSessions ==
    /\ [][(C21_BetweenStreams /\ cpc' = cpc) => values' = values]_vars
    /\ [][(~active /\ values' # values)
            => (cpc \in {"set_values", "set_values_store"} /\ cpc' # cpc)]_vars

\* the next session connected, no analog frame read in it yet, and key 4
\* still at the level the previous session's last sample gave it
C21_Witness ==
    /\ pc = "ws_read"
    /\ ~active
    /\ msg = [kind |-> "None", data |-> <<>>]
    /\ values[4] = 1056596592

====
